---- MODULE Spec2Model ----
(***************************************************************************)
(* A model of the two containers of the repository:                        *)
(*   src/src/vector.rs       Vector<T>, a growable array over a raw heap   *)
(*                           buffer (push, pop, grow, Deref, Drop)         *)
(*   src/src/linked_list.rs  LinkedList<T>, a singly linked stack          *)
(* The heap is modelled explicitly: blocks with a byte size and one cell   *)
(* per element slot.  A cell holds the bits last written to it; memory     *)
(* that was never written holds Junk.  usize arithmetic is WordBits wide.  *)
(***************************************************************************)
EXTENDS Integers, Sequences, FiniteSets, TLC

(* ------------------------------ bounds -------------------------------- *)
WordBits == 4
MaxElemSize == 2
MaxOps == 5
NumAddrs == 2
MaxListOps == 7
NumNodes == 5

(* ------------------------- machine constants -------------------------- *)
RECURSIVE Pow2(_)
Pow2(n) == IF n = 0 THEN 1 ELSE 2 * Pow2(n - 1)

\* usize has WordBits bits: values 0 .. Usize-1
Usize == Pow2(WordBits)
\* isize::MAX as usize
IsizeMax == Pow2(WordBits - 1) - 1

\* the null pointer (what alloc/realloc return on failure)
Null == 0
\* NonNull::dangling(): non-null, aligned, not an allocation
Dangling == 1
HeapAddrs == 2 .. (NumAddrs + 1)

\* The values pushed.  The containers never inspect a T, so two values are
\* as good as any number of them.
Values == {1, 2}

(* ------------------------------ elements ------------------------------ *)
\* An element is a value together with the identity of the object that owns
\* its resources (a String's heap buffer, say); ids are never 0 or -1.
Elem(id, val) == [id |-> id, val |-> val]
\* Option::None
None == [id |-> 0, val |-> 0]
\* the contents of memory that was never written
Junk == [id |-> -1, val |-> -1]
\* no slot of the buffer (where a call records the slot it touched)
NoSlot == -1

VARIABLES
  elemSize,   \* std::mem::size_of::<T>()
  ptr,        \* Vector.ptr
  capacity,   \* Vector.capacity
  length,     \* Vector.length
  mem,        \* the heap: address -> block
  pc,         \* "live", "panicked" (unwinding), "dropped"
  history,    \* the push/pop calls made on the vector, with their results
  lastIndex,  \* the result of the most recent index access
  dropLog,    \* what Drop for Vector did, in order
  ub,         \* undefined behaviour has been executed
  head,       \* LinkedList.head
  nodes,      \* the Box<Node<T>> allocations: address -> node
  lhistory,   \* the push/pop calls made on the list, with their results
  lpc         \* "live", "dropped"

listVars == <<head, nodes, lhistory, lpc>>
vecVars == <<elemSize, ptr, capacity, length, mem, pc, history, lastIndex, dropLog, ub>>
vars == <<elemSize, ptr, capacity, length, mem, pc, history, lastIndex, dropLog, ub,
          head, nodes, lhistory, lpc>>

\* the Vector value as a record
Self == [ptr |-> ptr, capacity |-> capacity, length |-> length]

(* ------------------------------ the heap ------------------------------ *)
FreeBlock == [size |-> 0, cells |-> <<>>]

IsAllocated(m, p) == p \in HeapAddrs /\ m[p].size > 0

\* a block of `size` bytes whose first cells are `old`
BlockOf(size, old) ==
  LET n == size \div elemSize
  IN [size |-> size,
      cells |-> [i \in 1 .. n |-> IF i <= Len(old) THEN old[i] ELSE Junk]]

\* one allocator call, as recorded in the history
Call(fn, p, old, new, ret) == [fn |-> fn, ptr |-> p, old |-> old, new |-> new, ret |-> ret]

\* The addresses the allocator may hand out next.  Addresses are only ever
\* compared for equality, so the free addresses are interchangeable and the
\* lowest one stands for all of them.
FreeAddrs(m) ==
  LET free == {b \in HeapAddrs : ~IsAllocated(m, b)}
  IN {a \in free : \A b \in free : a <= b}

\* alloc::alloc(layout): null, or a fresh block of never-written memory
alloc(m, size) ==
  {[ptr |-> Null, mem |-> m, ub |-> FALSE]}
  \cup {[ptr |-> a, mem |-> [m EXCEPT ![a] = BlockOf(size, <<>>)], ub |-> FALSE] :
          a \in FreeAddrs(m)}

\* alloc::realloc(ptr, old_layout, new_size): null (the old block stays as it
\* is), or the block resized in place, or moved to a free address with the
\* old block released; the old contents are kept up to the smaller size.
\* Passing a pointer that is not an allocation of old_layout is undefined.
realloc(m, p, old_size, new_size) ==
  IF ~IsAllocated(m, p)
  THEN {[ptr |-> Null, mem |-> m, ub |-> TRUE]}
  ELSE LET bad == m[p].size # old_size
           blk == BlockOf(new_size, m[p].cells)
       IN {[ptr |-> Null, mem |-> m, ub |-> bad]}
          \cup {[ptr |-> p, mem |-> [m EXCEPT ![p] = blk], ub |-> bad]}
          \cup {[ptr |-> a, mem |-> [m EXCEPT ![p] = FreeBlock, ![a] = blk], ub |-> bad] :
                  a \in FreeAddrs(m)}

\* alloc::dealloc(ptr, layout)
dealloc(m, p, size) ==
  IF ~IsAllocated(m, p)
  THEN [mem |-> m, ub |-> TRUE]
  ELSE [mem |-> [m EXCEPT ![p] = FreeBlock], ub |-> m[p].size # size]

\* slot i (0-based) of the buffer at p lies inside an allocation
InBlock(m, p, i) == IsAllocated(m, p) /\ i >= 0 /\ i < Len(m[p].cells)

\* ptr::read(p.add(i)): the bits of the slot
ReadCell(m, p, i) == IF InBlock(m, p, i) THEN m[p].cells[i + 1] ELSE Junk

\* ptr::write(p.add(i), e): overwrites the bits, drops nothing
WriteCell(m, p, i, e) ==
  IF InBlock(m, p, i)
  THEN [mem |-> [m EXCEPT ![p].cells[i + 1] = e], ub |-> FALSE]
  ELSE [mem |-> m, ub |-> TRUE]

(* ------------------------------- Vector ------------------------------- *)
\* Layout::array::<T>(n): Err when the byte size overflows isize::MAX
LayoutErr == -1
LayoutArray(n) == IF n * elemSize <= IsizeMax THEN n * elemSize ELSE LayoutErr

\* Vector::new
new == [ptr |-> Dangling, capacity |-> 0, length |-> 0]

\* A grow() that makes room for one more element only.
NewCapacity_PlusOne(self) == (self.capacity + 1) % Usize

\* the capacity grow() asks for
NewCapacity(self) == IF self.capacity = 0 THEN 1 ELSE (self.capacity * 2) % Usize

\* A grow() that always takes a fresh block and never carries the old contents over.
Reallocate_Fresh(self, m, new_layout) ==
  {[ptr |-> r.ptr, mem |-> r.mem, ub |-> r.ub,
    call |-> Call("alloc", Null, 0, new_layout, r.ptr)] : r \in alloc(m, new_layout)}

\* A grow() that describes the old block to realloc by the new layout.
Reallocate_WrongOldLayout(self, m, new_layout) ==
  IF self.capacity = 0
  THEN {[ptr |-> r.ptr, mem |-> r.mem, ub |-> r.ub,
         call |-> Call("alloc", Null, 0, new_layout, r.ptr)] : r \in alloc(m, new_layout)}
  ELSE {[ptr |-> r.ptr, mem |-> r.mem, ub |-> r.ub,
         call |-> Call("realloc", self.ptr, new_layout, new_layout, r.ptr)] :
          r \in realloc(m, self.ptr, new_layout, new_layout)}

\* what grow() asks of the allocator: a fresh block when there is none yet,
\* a resize of the current block otherwise
Reallocate(self, m, new_layout) ==
  IF self.capacity = 0
  THEN {[ptr |-> r.ptr, mem |-> r.mem, ub |-> r.ub,
         call |-> Call("alloc", Null, 0, new_layout, r.ptr)] : r \in alloc(m, new_layout)}
  ELSE LET old_layout == LayoutArray(self.capacity)
       IN {[ptr |-> r.ptr, mem |-> r.mem, ub |-> r.ub,
            call |-> Call("realloc", self.ptr, old_layout, new_layout, r.ptr)] :
             r \in realloc(m, self.ptr, old_layout, new_layout)}

\* A grow() that stores the new capacity before it looks at the pointer the
\* allocator returned.
grow_CapacityFirst(self, m) ==
  LET new_capacity == NewCapacity(self)
      new_layout == LayoutArray(new_capacity)
      panic(s2, m2, u, cs) == [status |-> "panic", self |-> s2, mem |-> m2, ub |-> u, calls |-> cs]
  IN IF new_layout = LayoutErr \/ ~(new_layout <= IsizeMax)
     THEN {panic(self, m, FALSE, <<>>)}
     ELSE IF self.capacity # 0 /\ LayoutArray(self.capacity) = LayoutErr
     THEN {panic(self, m, FALSE, <<>>)}
     ELSE {IF r.ptr = Null
           THEN panic([self EXCEPT !.capacity = new_capacity], r.mem, r.ub, <<r.call>>)
           ELSE [status |-> "ok",
                 self |-> [self EXCEPT !.ptr = r.ptr, !.capacity = new_capacity],
                 mem |-> r.mem, ub |-> r.ub, calls |-> <<r.call>>] :
             r \in Reallocate(self, m, new_layout)}

\* A grow() that builds its layouts unchecked and has no assert!.
grow_Unchecked(self, m) ==
  LET new_capacity == NewCapacity(self)
      new_layout == (new_capacity * elemSize) % Usize
  IN {IF r.ptr = Null
      THEN [status |-> "panic", self |-> self, mem |-> r.mem, ub |-> r.ub, calls |-> <<r.call>>]
      ELSE [status |-> "ok",
            self |-> [self EXCEPT !.ptr = r.ptr, !.capacity = new_capacity],
            mem |-> r.mem, ub |-> r.ub, calls |-> <<r.call>>] :
        r \in Reallocate(self, m, new_layout)}

\* Vector::grow: the set of its outcomes.  Both unwrap()s, the assert! and
\* the expect() panic, leaving the vector as it was.
grow(self, m) ==
  LET new_capacity == NewCapacity(self)
      new_layout == LayoutArray(new_capacity)
      panic(m2, u, cs) == [status |-> "panic", self |-> self, mem |-> m2, ub |-> u, calls |-> cs]
  IN IF new_layout = LayoutErr \/ ~(new_layout <= IsizeMax)
     THEN {panic(m, FALSE, <<>>)}
     ELSE IF self.capacity # 0 /\ LayoutArray(self.capacity) = LayoutErr
     THEN {panic(m, FALSE, <<>>)}
     ELSE {IF r.ptr = Null
           THEN panic(r.mem, r.ub, <<r.call>>)
           ELSE [status |-> "ok",
                 self |-> [self EXCEPT !.ptr = r.ptr, !.capacity = new_capacity],
                 mem |-> r.mem, ub |-> r.ub, calls |-> <<r.call>>] :
             r \in Reallocate(self, m, new_layout)}

\* A push that grows whenever the buffer is full or not yet full.
NeedsGrow_Eager(self) == self.length <= self.capacity

\* A push that grows one element too late.
NeedsGrow_OffByOne(self) == self.length > self.capacity

\* push grows first when the buffer is full
NeedsGrow(self) == self.length = self.capacity

\* A push that writes at self.ptr, without the add().
PushSlot_First(self) == 0

\* the slot push writes: self.ptr.as_ptr().add(self.length)
PushSlot(self) == self.length

\* A push that leaves the length as it is.
NextLength_Forgotten(self) == self.length

\* self.length += 1
NextLength(self) == (self.length + 1) % Usize

\* Vector::push: the set of its outcomes
push(self, m, element) ==
  LET gs == IF NeedsGrow(self)
            THEN grow(self, m)
            ELSE {[status |-> "ok", self |-> self, mem |-> m, ub |-> FALSE, calls |-> <<>>]}
  IN {IF g.status = "panic"
      THEN [status |-> "panic", self |-> g.self, mem |-> g.mem, ub |-> g.ub,
            calls |-> g.calls, wrote |-> NoSlot]
      ELSE LET w == WriteCell(g.mem, g.self.ptr, PushSlot(g.self), element)
           IN [status |-> "ok",
               self |-> [g.self EXCEPT !.length = NextLength(g.self)],
               mem |-> w.mem, ub |-> g.ub \/ w.ub, calls |-> g.calls,
               wrote |-> PushSlot(g.self)] :
        g \in gs}

\* A pop without its check for the empty vector.
IsEmpty_Never(self) == FALSE

\* pop returns None at once when there is nothing to pop
IsEmpty(self) == self.length = 0

\* A pop that reads its slot as if the length were not yet decremented.
PopSlot_OffByOne(self) == self.length + 1

\* A pop that reads at self.ptr, without the add().
PopSlot_First(self) == 0

\* the slot pop reads, given the decremented length: self.ptr.as_ptr().add(self.length)
PopSlot(self) == self.length

\* Vector::pop
pop(self, m) ==
  IF IsEmpty(self)
  THEN [self |-> self, ret |-> None, ub |-> FALSE, read |-> NoSlot]
  ELSE LET s1 == [self EXCEPT !.length = (self.length - 1) % Usize]
           e == ReadCell(m, s1.ptr, PopSlot(s1))
       IN [self |-> s1, ret |-> e, ub |-> e = Junk, read |-> PopSlot(s1)]

\* A view over the whole allocation instead of the occupied prefix.
deref_Capacity(self, m) == [i \in 1 .. self.capacity |-> ReadCell(m, self.ptr, i - 1)]

\* Deref::deref: slice::from_raw_parts(ptr, length)
deref(self, m) == [i \in 1 .. self.length |-> ReadCell(m, self.ptr, i - 1)]

\* vec[i]: the bounds-checked index of the slice deref() returns
index(self, m, i) ==
  LET view == deref(self, m)
  IN IF i < Len(view)
     THEN [op |-> "index", i |-> i, trap |-> FALSE, val |-> view[i + 1]]
     ELSE [op |-> "index", i |-> i, trap |-> TRUE, val |-> None]

NoIndex == [op |-> "none", i |-> 0, trap |-> FALSE, val |-> None]

\* A Drop that releases the buffer without cleaning up what is in it.
drop_loop_Skipped(self, m, log, u) == [self |-> self, log |-> log, ub |-> u]

\* `while let Some(_) = self.pop() {}`: each popped value is dropped at once
RECURSIVE drop_loop(_, _, _, _)
drop_loop(self, m, log, u) ==
  LET p == pop(self, m)
  IN IF p.ret = None
     THEN [self |-> p.self, log |-> log, ub |-> u \/ p.ub]
     ELSE drop_loop(p.self, m,
                    Append(log, [kind |-> "drop", elem |-> p.ret, ptr |-> Null, size |-> 0,
                                 slot |-> p.read]),
                    u \/ p.ub)

\* A Drop that cleans up the view front to back, as drop_in_place on the
\* slice would, instead of popping.
drop_InIndexOrder(self, m) ==
  IF self.capacity # 0
  THEN LET view == [i \in 1 .. self.length |-> ReadCell(m, self.ptr, i - 1)]
           layout == LayoutArray(self.capacity)
           f == dealloc(m, self.ptr, layout)
       IN [self |-> [self EXCEPT !.length = 0], mem |-> f.mem,
           log |-> [i \in 1 .. self.length |->
                      [kind |-> "drop", elem |-> view[i], ptr |-> Null, size |-> 0,
                       slot |-> i - 1]]
                   \o <<[kind |-> "dealloc", elem |-> None, ptr |-> self.ptr, size |-> layout,
                         slot |-> NoSlot]>>,
           ub |-> f.ub]
  ELSE [self |-> self, mem |-> m, log |-> <<>>, ub |-> FALSE]

\* Drop::drop for Vector
drop(self, m) ==
  IF self.capacity # 0
  THEN LET d == drop_loop(self, m, <<>>, FALSE)
           layout == LayoutArray(d.self.capacity)
           f == dealloc(m, d.self.ptr, layout)
       IN [self |-> d.self, mem |-> f.mem,
           log |-> Append(d.log, [kind |-> "dealloc", elem |-> None, ptr |-> d.self.ptr,
                                  size |-> layout, slot |-> NoSlot]),
           ub |-> d.ub \/ f.ub]
  ELSE [self |-> self, mem |-> m, log |-> <<>>, ub |-> FALSE]

(* --------------------------- Vector actions --------------------------- *)
\* a call and its result: the element pushed or returned, whether the call
\* completed, the allocator calls it made and the slot it wrote or read
Event(op, e, ok, calls, slot) ==
  [op |-> op, elem |-> e, ok |-> ok, calls |-> calls, slot |-> slot]

VecInit ==
  /\ elemSize \in 1 .. MaxElemSize
  /\ ptr = new.ptr
  /\ capacity = new.capacity
  /\ length = new.length
  /\ mem = [a \in HeapAddrs |-> FreeBlock]
  /\ pc = "live"
  /\ history = <<>>
  /\ lastIndex = NoIndex
  /\ dropLog = <<>>
  /\ ub = FALSE

VecPushStep(v) ==
  /\ pc = "live"
  /\ Len(history) < MaxOps
  /\ LET element == Elem(Len(history) + 1, v)
     IN \E r \in push(Self, mem, element) :
          /\ ptr' = r.self.ptr
          /\ capacity' = r.self.capacity
          /\ length' = r.self.length
          /\ mem' = r.mem
          /\ ub' = (ub \/ r.ub)
          /\ pc' = IF r.status = "ok" THEN "live" ELSE "panicked"
          /\ history' = Append(history, Event("push", element, r.status = "ok", r.calls, r.wrote))
  /\ lastIndex' = NoIndex
  /\ UNCHANGED <<elemSize, dropLog>>

VecPopStep ==
  /\ pc = "live"
  /\ Len(history) < MaxOps
  /\ LET r == pop(Self, mem)
     IN /\ ptr' = r.self.ptr
        /\ capacity' = r.self.capacity
        /\ length' = r.self.length
        /\ ub' = (ub \/ r.ub)
        /\ history' = Append(history, Event("pop", r.ret, TRUE, <<>>, r.read))
  /\ lastIndex' = NoIndex
  /\ UNCHANGED <<elemSize, mem, pc, dropLog>>

\* an index access; out of bounds it panics and the unwinding begins
VecIndexStep(i) ==
  /\ pc = "live"
  /\ LET r == index(Self, mem, i)
     IN /\ lastIndex' = r
        /\ pc' = IF r.trap THEN "panicked" ELSE "live"
        /\ ub' = (ub \/ (~r.trap /\ r.val = Junk))
  /\ UNCHANGED <<elemSize, ptr, capacity, length, mem, history, dropLog>>

\* the vector goes out of scope, normally or while a panic unwinds
VecDropStep ==
  /\ pc \in {"live", "panicked"}
  /\ LET r == drop(Self, mem)
     IN /\ ptr' = r.self.ptr
        /\ capacity' = r.self.capacity
        /\ length' = r.self.length
        /\ mem' = r.mem
        /\ dropLog' = r.log
        /\ ub' = (ub \/ r.ub)
  /\ pc' = "dropped"
  /\ lastIndex' = NoIndex
  /\ UNCHANGED <<elemSize, history>>

(* ----------------------------- LinkedList ----------------------------- *)
\* Link<T> = Option<Box<Node<T>>>: None is NoLink, Some(box) is its address
NoLink == 0
NodeAddrs == 1 .. NumNodes
FreeNode == [element |-> None, next |-> NoLink, used |-> FALSE]

\* Box::new: the address of the new box.  As with the heap above, the free
\* addresses are interchangeable and the lowest stands for all of them.
FreeNodes(ns) ==
  LET free == {b \in NodeAddrs : ~ns[b].used}
  IN {a \in free : \A b \in free : a <= b}

\* LinkedList::new
lnew == [head |-> NoLink]

\* A push that does not hang the old chain on the new node.
lpush_Unlinked(h, ns, element, a) ==
  [head |-> a,
   nodes |-> [ns EXCEPT ![a] = [element |-> element, next |-> NoLink, used |-> TRUE]]]

\* LinkedList::push, the new node boxed at address a
lpush(h, ns, element, a) ==
  [head |-> a,
   nodes |-> [ns EXCEPT ![a] = [element |-> element, next |-> h, used |-> TRUE]]]

\* A pop that forgets to put the rest of the chain back in self.head.
PopHead_Lost(node) == NoLink

\* what pop leaves in self.head once the first node is taken out
PopHead(node) == node.next

\* LinkedList::pop
lpop(h, ns) ==
  IF h = NoLink
  THEN [head |-> NoLink, nodes |-> ns, ret |-> None]
  ELSE [head |-> PopHead(ns[h]), nodes |-> [ns EXCEPT ![h] = FreeNode], ret |-> ns[h].element]

\* Drop::drop for LinkedList: walks the chain, releasing one node per turn
RECURSIVE ldrop_loop(_, _)
ldrop_loop(current, ns) ==
  IF current = NoLink
  THEN ns
  ELSE ldrop_loop(ns[current].next, [ns EXCEPT ![current] = FreeNode])

ldrop(h, ns) == [head |-> NoLink, nodes |-> ldrop_loop(h, ns)]

(* ------------------------- LinkedList actions ------------------------- *)
ListInit ==
  /\ head = lnew.head
  /\ nodes = [a \in NodeAddrs |-> FreeNode]
  /\ lhistory = <<>>
  /\ lpc = "live"

ListPushStep(v) ==
  /\ lpc = "live"
  /\ Len(lhistory) < MaxListOps
  /\ LET element == Elem(Len(lhistory) + 1, v)
     IN \E a \in FreeNodes(nodes) :
          LET r == lpush(head, nodes, element, a)
          IN /\ head' = r.head
             /\ nodes' = r.nodes
             /\ lhistory' = Append(lhistory, Event("push", element, TRUE, <<>>, NoSlot))
  /\ UNCHANGED lpc

ListPopStep ==
  /\ lpc = "live"
  /\ Len(lhistory) < MaxListOps
  /\ LET r == lpop(head, nodes)
     IN /\ head' = r.head
        /\ nodes' = r.nodes
        /\ lhistory' = Append(lhistory, Event("pop", r.ret, TRUE, <<>>, NoSlot))
  /\ UNCHANGED lpc

ListDropStep ==
  /\ lpc = "live"
  /\ LET r == ldrop(head, nodes)
     IN /\ head' = r.head
        /\ nodes' = r.nodes
  /\ lpc' = "dropped"
  /\ UNCHANGED lhistory

(* --------------------------- specifications --------------------------- *)
Init == VecInit /\ ListInit

VecPush == (\E v \in Values : VecPushStep(v)) /\ UNCHANGED listVars
VecPop == VecPopStep /\ UNCHANGED listVars
VecIndex == (\E i \in 0 .. capacity : VecIndexStep(i)) /\ UNCHANGED listVars
VecDrop == VecDropStep /\ UNCHANGED listVars

Next == VecPush \/ VecPop \/ VecIndex \/ VecDrop

\* the Vector on its own
Spec == Init /\ [][Next]_vars

ListPush == (\E v \in Values : ListPushStep(v)) /\ UNCHANGED vecVars
ListPop == ListPopStep /\ UNCHANGED vecVars
ListDrop == ListDropStep /\ UNCHANGED vecVars

InitList == Init /\ elemSize = 1

NextList == ListPush \/ ListPop \/ ListDrop

\* the LinkedList on its own
SpecList == InitList /\ [][NextList]_vars

\* the same call made on a Vector and on a LinkedList, side by side
PairPush == \E v \in Values : VecPushStep(v) /\ ListPushStep(v)
PairPop == VecPopStep /\ ListPopStep
PairDrop == VecDropStep /\ ListDropStep

NextPair == PairPush \/ PairPop \/ PairDrop

\* the Vector and the LinkedList driven by one sequence of calls
SpecPair == Init /\ [][NextPair]_vars

(* ------------------ what the calls made so far imply ------------------ *)
Front(s) == SubSeq(s, 1, Len(s) - 1)
Last(s) == s[Len(s)]

RECURSIVE Reverse(_)
Reverse(s) == IF s = <<>> THEN <<>> ELSE Append(Reverse(Tail(s)), Head(s))

\* The elements pushed and not yet popped after the calls of h, oldest
\* first: a completed push adds its element at the end, a pop takes the
\* last one away when there is one.
RECURSIVE LiveAfter(_)
LiveAfter(h) ==
  IF h = <<>>
  THEN <<>>
  ELSE LET prev == LiveAfter(Front(h))
           ev == Last(h)
       IN IF ev.op = "push"
          THEN (IF ev.ok THEN Append(prev, ev.elem) ELSE prev)
          ELSE (IF prev = <<>> THEN prev ELSE Front(prev))

\* the names of the calls of h, in order
Ops(h) == [k \in 1 .. Len(h) |-> h[k].op]

\* the elements Drop for Vector cleaned up, in the order it did
Dropped == LET ds == SelectSeq(dropLog, LAMBDA ev : ev.kind = "drop")
           IN [k \in 1 .. Len(ds) |-> ds[k].elem]

\* the elements pop has handed to the caller
Returned == {history[k].elem : k \in {j \in 1 .. Len(history) :
                                        history[j].op = "pop" /\ history[j].elem # None}}

\* how many times e occurs in the sequence s
Count(s, e) == Cardinality({k \in 1 .. Len(s) : s[k] = e})

(* ------------------------------- claims ------------------------------- *)

\* C1: a pop on a non-empty Vector returns the most recently pushed element
\* that has not been popped yet, whatever pushes and pops came before.
C1_PopIsLifo ==
  (history # <<>> /\ Last(history).op = "pop" /\ LiveAfter(Front(history)) # <<>>)
    => Last(history).elem = Last(LiveAfter(Front(history)))

\* pops interleaved with pushes, the last one taking the older of two
\* elements left after a growth
C1_Witness ==
  /\ Len(history) >= 5
  /\ Last(history).op = "pop"
  /\ Last(history).elem # None
  /\ Len(LiveAfter(Front(history))) >= 2
  /\ \E k \in 1 .. Len(history) - 2 : history[k].op = "pop" /\ history[k + 1].op = "push"
  /\ capacity >= 4

\* C2: length <= capacity in every reachable state, and no step lowers
\* capacity.
C2_LengthWithinCapacity ==
  [](length <= capacity) /\ [][capacity' >= capacity]_vars

\* pushes and pops have left a grown vector partly empty
C2_Witness ==
  /\ pc = "live"
  /\ capacity >= 4
  /\ length < capacity
  /\ \E k \in 1 .. Len(history) : history[k].op = "pop" /\ history[k].elem # None

\* C3: after N pushes and no pop on a new Vector, len() = N and
\* capacity() >= N.
C3_PushesOnly ==
  (pc = "live" /\ \A k \in 1 .. Len(history) : history[k].op = "push" /\ history[k].ok)
    => (length = Len(history) /\ capacity >= Len(history))

\* three pushes, through three growths
C3_Witness ==
  /\ pc = "live"
  /\ Len(history) >= 3
  /\ \A k \in 1 .. Len(history) : history[k].op = "push" /\ history[k].ok
  /\ capacity > length

\* C4: the contiguous view has len() elements and is the sequence of the
\* elements pushed and not yet popped, in push order.
C4_ViewIsLiveElements ==
  pc \in {"live", "panicked"}
    => (Len(deref(Self, mem)) = length /\ deref(Self, mem) = LiveAfter(history))

\* a view of three elements, after a pop and a move of the buffer
C4_Witness ==
  /\ pc = "live"
  /\ Len(deref(Self, mem)) = 3
  /\ \E k \in 1 .. Len(history) : history[k].op = "pop" /\ history[k].elem # None
  /\ \E k \in 1 .. Len(history) :
       /\ history[k].calls # <<>>
       /\ history[k].calls[1].fn = "realloc"
       /\ history[k].calls[1].ret # history[k].calls[1].ptr

\* C5: a successful grow() leaves length and the value of every slot in
\* [0, length) as they were, in place or moved; only the address and the
\* capacity change.  Stated of grow() in every state where push calls it, and
\* of every step that changes the capacity.
C5_GrowKeepsElements ==
  /\ []((pc = "live" /\ NeedsGrow(Self)) =>
          \A g \in grow(Self, mem) :
            g.status = "ok" =>
              /\ g.self.length = length
              /\ deref(g.self, g.mem) = deref(Self, mem)
              /\ g.self.capacity > capacity)
  /\ [][capacity' # capacity =>
          /\ length' = length + 1
          /\ SubSeq(deref(Self, mem)', 1, length) = deref(Self, mem)]_vars

\* the second realloc in a row has moved a buffer of two elements
C5_Witness ==
  /\ pc = "live"
  /\ capacity = 4
  /\ length = 3
  /\ Last(history).calls # <<>>
  /\ Last(history).calls[1].fn = "realloc"
  /\ Last(history).calls[1].ret # Last(history).calls[1].ptr
  /\ Len(history) = 3

\* C6: destroying a Vector cleans up every element live at that moment
\* exactly once and nothing else, all of it before the buffer is released;
\* what pop returned is not cleaned up by the container.
C6_DropCleansEachLiveOnce ==
  pc = "dropped" =>
    /\ \A i \in 1 .. Len(LiveAfter(history)) : Count(Dropped, LiveAfter(history)[i]) = 1
    /\ Len(Dropped) = Len(LiveAfter(history))
    /\ \A e \in Returned : Count(Dropped, e) = 0
    /\ \A j, k \in 1 .. Len(dropLog) :
         (dropLog[j].kind = "drop" /\ dropLog[k].kind = "dealloc") => j < k

\* a vector dropped with two elements left and one popped before
C6_Witness ==
  /\ pc = "dropped"
  /\ Len(LiveAfter(history)) >= 2
  /\ Returned # {}
  /\ Len(dropLog) = Len(LiveAfter(history)) + 1

\* C7 (as stated): Drop cleans up the live elements in index order, slot 0
\* first, and only then, if capacity > 0, releases the allocation.
C7_DropInIndexOrder ==
  pc = "dropped" =>
    /\ Dropped = LiveAfter(history)
    /\ (capacity > 0) =>
         (dropLog # <<>> /\ Last(dropLog).kind = "dealloc" /\ Len(dropLog) = Len(Dropped) + 1)
    /\ (capacity = 0) => dropLog = <<>>

\* C7 (amended): Drop cleans up the live elements in reverse index order,
\* slot length-1 first and slot 0 last, and only then, if capacity > 0,
\* releases the allocation.
C7_DropInReverseIndexOrder ==
  pc = "dropped" =>
    /\ Dropped = Reverse(LiveAfter(history))
    /\ (capacity > 0) =>
         (dropLog # <<>> /\ Last(dropLog).kind = "dealloc" /\ Len(dropLog) = Len(Dropped) + 1)
    /\ (capacity = 0) => dropLog = <<>>

\* a vector dropped with three elements left
C7_Witness ==
  /\ pc = "dropped"
  /\ Len(LiveAfter(history)) = 3
  /\ Len(Dropped) = 3
  /\ Last(dropLog).kind = "dealloc"

\* C8: pop with length = 0 returns None and leaves length, capacity, the
\* address and the heap as they are, without a panic.
C8_PopOnEmpty ==
  [][(pc = "live" /\ length = 0 /\ history' # history /\ Last(history').op = "pop") =>
       /\ Last(history').elem = None
       /\ length' = 0
       /\ capacity' = capacity
       /\ ptr' = ptr
       /\ mem' = mem
       /\ pc' = "live"
       /\ ub' = ub]_vars

\* two pops in a row on an emptied vector that owns a buffer
C8_Witness ==
  /\ Len(history) >= 4
  /\ Last(history).op = "pop" /\ Last(history).elem = None
  /\ Last(Front(history)).op = "pop" /\ Last(Front(history)).elem = None
  /\ capacity > 0
  /\ length = 0
  /\ pc = "live"

\* C9: a pop on a LinkedList returns the most recently pushed element not
\* yet popped; on an empty list it returns None and leaves the list empty.
C9_ListPopIsLifo ==
  (lpc = "live" /\ lhistory # <<>> /\ Last(lhistory).op = "pop") =>
    IF LiveAfter(Front(lhistory)) = <<>>
    THEN Last(lhistory).elem = None /\ head = NoLink
    ELSE Last(lhistory).elem = Last(LiveAfter(Front(lhistory)))

\* push, push, push, pop, pop, push, pop: the last pop returns the element
\* pushed after two pops
C9_Witness ==
  /\ Ops(lhistory) = <<"push", "push", "push", "pop", "pop", "push", "pop">>
  /\ Last(lhistory).elem = lhistory[6].elem
  /\ lhistory[5].elem = lhistory[2].elem
  /\ head # NoLink

\* C10: an index access with i >= len() traps, and one that returns a value
\* read a slot in [0, len()), that of the i-th live element.
C10_IndexIsBoundsChecked ==
  (pc \in {"live", "panicked"} /\ lastIndex.op = "index") =>
    /\ (lastIndex.i >= length) => (lastIndex.trap /\ pc = "panicked")
    /\ ~lastIndex.trap =>
         (lastIndex.i < length /\ lastIndex.val = LiveAfter(history)[lastIndex.i + 1])

\* an access to a slot inside the allocation but past len() has trapped
C10_Witness ==
  /\ lastIndex.op = "index"
  /\ lastIndex.trap
  /\ lastIndex.i >= length
  /\ lastIndex.i < capacity
  /\ length >= 1
  /\ \E k \in 1 .. Len(history) : history[k].op = "pop" /\ history[k].elem # None

\* the addresses that hold a block
Allocated(m) == {a \in HeapAddrs : IsAllocated(m, a)}

\* the allocator calls the pushes of h made, in order
RECURSIVE CallsOf(_)
CallsOf(h) == IF h = <<>> THEN <<>> ELSE CallsOf(Front(h)) \o Last(h).calls

\* the last call among the first k of cs that returned a block
LastBlock(cs, k) ==
  LET good == {j \in 1 .. k : cs[j].ret # Null}
  IN IF good = {} THEN 0 ELSE CHOOSE j \in good : \A i \in good : i <= j

\* the releases Drop for Vector made
Deallocs == SelectSeq(dropLog, LAMBDA ev : ev.kind = "dealloc")

\* C11: the live allocation is exactly `capacity` slots, and there is none
\* exactly when capacity = 0; every realloc is given the block and the layout
\* of the last successful allocation; Drop releases that block once with the
\* layout of the final capacity, and releases nothing when capacity = 0.
C11_AllocationMatchesCapacity ==
  /\ pc \in {"live", "panicked"} =>
       /\ (capacity = 0) <=> (Allocated(mem) = {})
       /\ (capacity > 0) =>
            /\ Allocated(mem) = {ptr}
            /\ mem[ptr].size = capacity * elemSize
            /\ Len(mem[ptr].cells) = capacity
  /\ \A k \in 1 .. Len(CallsOf(history)) :
       CallsOf(history)[k].fn = "realloc" =>
         /\ LastBlock(CallsOf(history), k - 1) # 0
         /\ CallsOf(history)[k].ptr = CallsOf(history)[LastBlock(CallsOf(history), k - 1)].ret
         /\ CallsOf(history)[k].old = CallsOf(history)[LastBlock(CallsOf(history), k - 1)].new
  /\ pc = "dropped" =>
       /\ Allocated(mem) = {}
       /\ (capacity = 0) => (dropLog = <<>> /\ LastBlock(CallsOf(history), Len(CallsOf(history))) = 0)
       /\ (capacity > 0) =>
            /\ Len(Deallocs) = 1
            /\ Deallocs[1].ptr = ptr
            /\ Deallocs[1].size = capacity * elemSize
            /\ LastBlock(CallsOf(history), Len(CallsOf(history))) # 0
            /\ Deallocs[1].ptr =
                 CallsOf(history)[LastBlock(CallsOf(history), Len(CallsOf(history)))].ret
            /\ Deallocs[1].size =
                 CallsOf(history)[LastBlock(CallsOf(history), Len(CallsOf(history)))].new

\* a vector grown twice by realloc and then dropped at capacity 4, its
\* buffer released with the layout of 4 elements
C11_Witness ==
  /\ pc = "dropped"
  /\ capacity = 4
  /\ Len(Deallocs) = 1
  /\ Deallocs[1].size = 4 * elemSize
  /\ Len(SelectSeq(CallsOf(history), LAMBDA c : c.fn = "realloc" /\ c.ret # Null)) = 2

\* the powers of two a usize can hold
PowersOfTwo == {Pow2(k) : k \in 0 .. WordBits - 1}

\* the smallest power of two >= n, 0 for n = 0
SmallestPow2AtLeast(n) ==
  IF n = 0
  THEN 0
  ELSE CHOOSE p \in PowersOfTwo : p >= n /\ \A q \in PowersOfTwo : q >= n => p <= q

\* this step is a call of push
PushCalled == history' # history /\ Last(history').op = "push"

\* C12: the allocator is called, and the capacity changed, only by a push
\* that finds length = capacity, and then 0 becomes 1 and c becomes 2c; so
\* capacity is 0 or a power of two, after N pushes and no pop it is the
\* smallest power of two >= N, and a push with length < capacity allocates
\* nothing and leaves capacity and address alone.
C12_GrowthDoubles ==
  /\ [](capacity = 0 \/ capacity \in PowersOfTwo)
  /\ []((pc = "live" /\ \A k \in 1 .. Len(history) : history[k].op = "push" /\ history[k].ok)
          => capacity = SmallestPow2AtLeast(Len(history)))
  /\ [][(history' # history /\ Last(history').calls # <<>>) =>
          (Last(history').op = "push" /\ length = capacity)]_vars
  /\ [][capacity' # capacity =>
          /\ PushCalled
          /\ length = capacity
          /\ capacity' = IF capacity = 0 THEN 1 ELSE 2 * capacity]_vars
  /\ [][(PushCalled /\ length < capacity) =>
          /\ Last(history').ok
          /\ Last(history').calls = <<>>
          /\ capacity' = capacity
          /\ ptr' = ptr]_vars

\* a push right after a pop, at capacity 4, that called no allocator
C12_Witness ==
  /\ pc = "live"
  /\ capacity = 4
  /\ Len(history) >= 5
  /\ Last(history).op = "push"
  /\ Last(history).ok
  /\ Last(history).calls = <<>>
  /\ Last(Front(history)).op = "pop"
  /\ Last(Front(history)).elem # None

\* the elements the vector owns after the calls of h
Owned(h) == {LiveAfter(h)[i] : i \in 1 .. Len(LiveAfter(h))}

\* this step is a call of pop
PopCalled == history' # history /\ Last(history').op = "pop"

\* this step is the destruction of the vector
DropCalled == pc # "dropped" /\ pc' = "dropped"

\* C13: slots [0, length) hold the elements the vector owns and slots
\* [length, capacity) hold none of them (never written, or moved out); push
\* writes slot `length` only, which holds no owned element then, and keeps
\* the others; pop and Drop read slot length-1 only, which holds an owned
\* element then and is outside [0, length) afterwards; an index access that
\* returns read a slot below length.
C13_LiveAndUninitializedSlots ==
  /\ [](pc \in {"live", "panicked"} =>
          \A i \in 0 .. capacity - 1 :
            IF i < length
            THEN ReadCell(mem, ptr, i) = LiveAfter(history)[i + 1]
            ELSE ReadCell(mem, ptr, i) \notin Owned(history))
  /\ []((pc \in {"live", "panicked"} /\ lastIndex.op = "index" /\ ~lastIndex.trap) =>
          lastIndex.i < length)
  /\ [][(PushCalled /\ Last(history').ok) =>
          /\ Last(history').slot = length
          /\ InBlock(mem, ptr, length) => ReadCell(mem, ptr, length) \notin Owned(history)
          /\ ReadCell(mem', ptr', length) = Last(history').elem
          /\ \A i \in 0 .. capacity' - 1 :
               i # length => ReadCell(mem', ptr', i) = ReadCell(mem, ptr, i)]_vars
  /\ [][(PushCalled /\ ~Last(history').ok) =>
          (Last(history').slot = NoSlot /\ mem' = mem)]_vars
  /\ [][PopCalled =>
          IF length = 0
          THEN Last(history').slot = NoSlot
          ELSE /\ Last(history').slot = length - 1
               /\ Last(history').elem = ReadCell(mem, ptr, length - 1)
               /\ Last(history').elem \in Owned(history)
               /\ length' = length - 1
               /\ Last(history').elem \notin Owned(history')]_vars
  /\ [][DropCalled =>
          /\ Len(Dropped') = length
          /\ length' = 0
          /\ \A k \in 1 .. Len(dropLog') :
               dropLog'[k].kind = "drop" =>
                 /\ k <= length
                 /\ dropLog'[k].slot = length - k
                 /\ dropLog'[k].elem = ReadCell(mem, ptr, length - k)
                 /\ dropLog'[k].elem \in Owned(history)]_vars

\* a slot that a pop emptied has been written again by a push, and the
\* slot above it still holds the bits of an element moved out earlier
C13_Witness ==
  /\ pc = "live"
  /\ Len(history) >= 5
  /\ Last(history).op = "push"
  /\ Last(history).ok
  /\ Last(history).calls = <<>>
  /\ length < capacity
  /\ ReadCell(mem, ptr, length) \in Returned
  /\ ReadCell(mem, ptr, length - 1) = Last(history).elem

\* C14: a pop that returns an element changes length by -1 and nothing
\* else: capacity, address and every slot stay as they are; a push with
\* length < capacity changes slot `length` and length (by +1) and nothing
\* else; the address changes only in a push that grows or at teardown.
C14_FrameConditions ==
  /\ [][(PopCalled /\ length > 0) =>
          /\ length' = length - 1
          /\ capacity' = capacity
          /\ ptr' = ptr
          /\ mem' = mem
          /\ \A i \in 0 .. length - 2 : ReadCell(mem', ptr', i) = ReadCell(mem, ptr, i)
          /\ pc' = pc]_vars
  /\ [][(PushCalled /\ length < capacity) =>
          /\ length' = length + 1
          /\ capacity' = capacity
          /\ ptr' = ptr
          /\ Allocated(mem') = Allocated(mem)
          /\ mem'[ptr].size = mem[ptr].size
          /\ ReadCell(mem', ptr', length) = Last(history').elem
          /\ \A i \in 0 .. capacity - 1 :
               i # length => ReadCell(mem', ptr', i) = ReadCell(mem, ptr, i)
          /\ pc' = pc]_vars
  /\ [][ptr' # ptr =>
          \/ (PushCalled /\ length = capacity /\ Last(history').calls # <<>>
                /\ capacity' # capacity)
          \/ DropCalled]_vars

\* a push into a vector of capacity 4 that holds two elements, after a pop
C14_Witness ==
  /\ pc = "live"
  /\ capacity = 4
  /\ length = 3
  /\ Len(history) = 5
  /\ Last(history).op = "push"
  /\ Last(history).calls = <<>>
  /\ Last(history).slot = 2
  /\ Last(Front(history)).op = "pop"
  /\ Last(Front(history)).slot = 2

\* the last call was a push whose growth got null from the allocator
AllocFailed ==
  /\ history # <<>>
  /\ Last(history).op = "push"
  /\ ~Last(history).ok
  /\ Last(history).calls # <<>>

\* C15: when the allocator returns null in a push, the push fails fatally and
\* address, capacity, length and the heap are what they were before it: the
\* old buffer is still owned and sized for the old capacity and the new
\* element is not stored.  The teardown that follows cleans up each element
\* that was live exactly once and releases the old allocation exactly once,
\* with the layout of the old capacity.
C15_AllocationFailure ==
  /\ [][(PushCalled /\ ~Last(history').ok /\ Last(history').calls # <<>>) =>
          /\ Last(history').calls[1].ret = Null
          /\ length = capacity
          /\ ptr' = ptr
          /\ capacity' = capacity
          /\ length' = length
          /\ mem' = mem
          /\ ub' = ub
          /\ pc' = "panicked"]_vars
  /\ []((AllocFailed /\ pc = "panicked") =>
          /\ deref(Self, mem) = LiveAfter(history)
          /\ Last(history).elem \notin Owned(history)
          /\ (capacity = 0) => Allocated(mem) = {}
          /\ (capacity > 0) => (Allocated(mem) = {ptr} /\ mem[ptr].size = capacity * elemSize))
  /\ []((AllocFailed /\ pc = "dropped") =>
          /\ \A e \in Owned(history) : Count(Dropped, e) = 1
          /\ Len(Dropped) = Len(LiveAfter(history))
          /\ Count(Dropped, Last(history).elem) = 0
          /\ Len(Deallocs) = (IF capacity > 0 THEN 1 ELSE 0)
          /\ \A k \in 1 .. Len(Deallocs) :
               Deallocs[k].ptr = ptr /\ Deallocs[k].size = capacity * elemSize
          /\ Allocated(mem) = {}
          /\ ~ub)

\* a realloc from capacity 2 failed, and the teardown cleaned up the two
\* elements and released the block of two
C15_Witness ==
  /\ AllocFailed
  /\ pc = "dropped"
  /\ Last(history).calls[1].fn = "realloc"
  /\ capacity = 2
  /\ Len(Dropped) = 2
  /\ Len(Deallocs) = 1
  /\ Deallocs[1].size = 2 * elemSize

\* the largest allocation size: 2^(w-1) - 1 bytes
MaxAllocSize == Pow2(WordBits - 1) - 1

\* the capacity a growth from capacity c asks for, computed without a width
Doubled(c) == IF c = 0 THEN 1 ELSE 2 * c

\* C16: a growth whose new byte size would exceed 2^(w-1) - 1 is rejected
\* fatally before any allocator call; every capacity ever accepted, and
\* every size ever asked of the allocator, is within that limit, so the
\* doubling of the capacity never reaches 2^w.
C16_GrowthWithinWord ==
  /\ [](capacity * elemSize <= MaxAllocSize /\ 2 * capacity < Pow2(WordBits))
  /\ [](\A k \in 1 .. Len(CallsOf(history)) :
          CallsOf(history)[k].new <= MaxAllocSize /\ CallsOf(history)[k].new > 0)
  /\ [][(PushCalled /\ length = capacity /\ Doubled(capacity) * elemSize > MaxAllocSize) =>
          /\ ~Last(history').ok
          /\ Last(history').calls = <<>>
          /\ ptr' = ptr
          /\ capacity' = capacity
          /\ length' = length
          /\ mem' = mem
          /\ pc' = "panicked"]_vars
  /\ [][(PushCalled /\ Last(history').calls # <<>>) =>
          Last(history').calls[1].new = Doubled(capacity) * elemSize]_vars
  /\ [][(PushCalled /\ ~Last(history').ok /\ Last(history').calls = <<>>) =>
          (length = capacity /\ Doubled(capacity) * elemSize > MaxAllocSize)]_vars

\* a full vector at the largest capacity the word allows has refused to
\* grow, without a call to the allocator
C16_Witness ==
  /\ pc = "panicked"
  /\ history # <<>>
  /\ Last(history).op = "push"
  /\ ~Last(history).ok
  /\ Last(history).calls = <<>>
  /\ length = capacity
  /\ capacity >= 2
  /\ 2 * capacity * elemSize > MaxAllocSize
  /\ capacity * elemSize <= MaxAllocSize

\* the number of nodes on the chain that starts at h
RECURSIVE ChainLen(_, _)
ChainLen(h, ns) == IF h = NoLink THEN 0 ELSE 1 + ChainLen(ns[h].next, ns)

\* C17: driven by the same pushes and pops from new(), the Vector and the
\* LinkedList return the same result from every pop, and while both are in
\* use len() is the number of nodes of the list.
C17_VectorAndListAgree ==
  /\ Len(history) = Len(lhistory)
  /\ \A k \in 1 .. Len(history) :
       /\ history[k].op = lhistory[k].op
       /\ history[k].op = "push" => history[k].elem = lhistory[k].elem
       /\ history[k].op = "pop" => history[k].elem = lhistory[k].elem
  /\ (pc = "live" /\ lpc = "live") =>
       /\ length = ChainLen(head, nodes)
       /\ length = Cardinality({a \in NodeAddrs : nodes[a].used})

\* both have answered None to a pop and then returned the same element,
\* with another element still held by both
C17_Witness ==
  /\ pc = "live"
  /\ lpc = "live"
  /\ Len(history) = 5
  /\ Last(history).op = "pop"
  /\ Last(history).elem # None
  /\ Last(lhistory).elem = Last(history).elem
  /\ \E k \in 1 .. Len(history) : history[k].op = "pop" /\ history[k].elem = None
  /\ length = 1
  /\ ChainLen(head, nodes) = 1
====
